---- MODULE Spec2Model ----
(***************************************************************************)
(* Session lifecycle and connection protocol of rio's FastapiServer        *)
(* (src/rio/app_server/fastapi_server.py): the latent and active session   *)
(* token maps, the websocket handler, the new-session gate and the         *)
(* periodic clean-up of expired sessions, the pending file uploads, the    *)
(* weakly hosted assets, the shutdown of the lifespan, the page requests   *)
(* of crawlers and the route table.                                        *)
(*                                                                         *)
(* The server runs on one asyncio event loop: every action below is the    *)
(* code a coroutine runs between two suspension points (await).            *)
(***************************************************************************)
EXTENDS Integers, Sequences, FiniteSets, TLC

\* ---------------------------------------------------------------- bounds
\* Session tokens handed out by secrets.token_urlsafe(): token k is the k-th.
MaxTokens == 2
\* Session objects constructed over websockets: a session is constructed only
\* for a token popped from the latent map, so there are no more than tokens.
MaxSessions == MaxTokens
\* Websocket connection handlers that exist at the same time.
MaxConns == 2
\* Advances of the monotonic clock.
MaxTicks == 2
\* Nested temporarily_disable_new_session_creation blocks.
MaxBlocks == 1
\* temporarily_disable_new_session_creation blocks that are active at the same
\* time when blocks are entered inside or across one another.
MaxNesting == 2
\* Upload tokens file_chooser makes with secrets.token_urlsafe().
MaxUploads == 2
\* Upload requests that are being answered at the same time.
MaxRequests == 2
\* Files (names, types, sizes, streams) one upload request carries.
MaxFiles == 1
\* Asset objects the application constructs.
MaxAssets == 3
\* Pages of the application a crawler can request or be redirected to.
MaxUrls == 2
\* Outbound messages a session sends while it is constructed.
MaxMessages == 2

\* ------------------------------------------------------ program constants
LOOP_INTERVAL == 60 * 15
SESSION_LIFETIME == 60 * 60
\* websocket.close(3000, "Invalid session token.")
INVALID_TOKEN_CODE == 3000
\* WebSocketDisconnect code of a client that navigated away on purpose.
GOING_AWAY_CODE == 1001

\* The clock advances by one of these (seconds): a minute, 59 minutes, an hour.
TickSteps == {60, 59 * 60, 60 * 60}
\* Close codes a WebSocketDisconnect can carry: going away, another one
\* (1006, abnormal closure), and the -1 receive_message raises when the
\* socket is already closed.
DisconnectCodes == {GOING_AWAY_CODE, 1006, -1}

Tokens == 1 .. MaxTokens
\* What a client can present as ?sessionToken=: an issued token or anything
\* else (0), such as "<crawler>".
NoToken == 0
Sessions == 1 .. MaxSessions
NoSession == 0
Conns == 1 .. MaxConns
NoConn == 0
UploadTokens == 1 .. MaxUploads
\* An upload token no file_chooser has made.
NoUpload == 0
Requests == 1 .. MaxRequests
AssetObjs == 1 .. MaxAssets
NoAsset == 0
\* Values of asset.secret_id. Two asset objects can have the same id ("If
\* another asset with the same id is already hosted, it will be replaced"),
\* so there are fewer ids than asset objects.
AssetIds == 1 .. (MaxAssets - 1)
\* The URLs of the application's pages.
Urls == 1 .. MaxUrls
NoUrl == 0
\* The messages a session can send while it is constructed.
Messages == 1 .. MaxMessages

VARIABLES
    lifespan,                  \* position of _lifespan: "startup" | "serving" |
                               \* "closing" | "exited" | "raised"
    running_in_window,         \* self.running_in_window
    reaper_task,               \* the "Periodic session cleanup" task exists
    reaper_wake,               \* the time its asyncio.sleep ends
    now,                       \* time.monotonic(), in seconds
    ticks,                     \* how often the clock has advanced
    can_create_new_sessions,   \* self._can_create_new_sessions.is_set()
    blocks,                    \* temporarily_disable_... blocks entered, not left
    next_token,                \* the next token secrets.token_urlsafe() returns
    latent_session_tokens,     \* keys of self._latent_session_tokens
    active_session_tokens,     \* self._active_session_tokens: token -> session
    num_sessions,              \* session objects constructed over websockets
    sess_token,                \* session -> the token its closures captured
    last_interaction_timestamp,\* session -> sess._last_interaction_timestamp
    websocket,                 \* session -> sess._websocket (a connection or none)
    is_active_event,           \* session -> sess._is_active_event.is_set()
    close_called,              \* session -> sess.close() has been called
    closed,                    \* session -> its close task has run
    pc,                        \* connection -> position of _serve_websocket
    conn_token,                \* connection -> its sessionToken parameter
    conn_sess,                 \* connection -> its local variable sess
    init_coro,                 \* connection -> the coroutine it launched
    waited_at_gate,            \* connection -> it found the gate closed
    close_code,                \* connection -> code of the close the server sent
    ended_by,                  \* connection -> what ended its sess.serve()
    disconnect_code,           \* connection -> code of that WebSocketDisconnect
    looked_up,                 \* history: tokens a handler has looked up
    last_message_at,           \* history: session -> time of its last client
                               \* message, -1 before the first
    handshake_failed,          \* history: tokens whose handshake has failed
    pending_file_uploads,      \* self._pending_file_uploads: upload token ->
                               \* the time it was stored, -1 when absent
    num_uploads,               \* upload tokens file_chooser has made
    future,                    \* upload token -> state of its asyncio.Future
    chooser,                   \* upload token -> position of its file_chooser
    upload_pc,                 \* request -> position of _serve_file_upload
    upload_future,             \* request -> the future it popped
    reads_left,                \* request -> file streams still to be read
    status_code,               \* request -> status code of its response
    last_upload,               \* history: the parameters of the last request
    set_results,               \* history: upload token -> successful set_result
    assets,                    \* self._assets: asset id -> asset object
    alive,                     \* asset object -> its owner still holds it
    secret_id,                 \* asset object -> asset.secret_id
    hosted,                    \* history: asset objects given to
                               \* weakly_host_asset
    asset_response,            \* the last response of _serve_temp_asset
    asset_request,             \* history: the id the last request asked for
    closing,                   \* session -> state of its _close at shutdown
    on_app_close_called,       \* _call_on_app_close has been awaited
    server_collected,          \* the FastapiServer object has been collected
    crawler_pc,                \* position of _serve_index for a crawler
    requested_url,             \* its local variable requested_url
    initial_messages,          \* its local variable initial_messages
    active_page_url,           \* session.active_page_url of its session
    crawler_close_called,      \* session.close() has been called on it
    index_response,            \* the response _serve_index returned
    sent,                      \* history: the messages the crawler's session
                               \* sent, in the order of the calls
    url_of,                    \* asset object -> the URL path
                               \* weakly_host_asset returned for it
    get_path,                  \* history: the path of the last GET request
    dispatched                 \* the handler it was dispatched to

server_vars == <<lifespan, running_in_window, reaper_task, reaper_wake>>
clock_vars == <<now, ticks>>
gate_vars == <<can_create_new_sessions, blocks>>
map_vars == <<next_token, latent_session_tokens, active_session_tokens>>
sess_vars == <<num_sessions, sess_token, last_interaction_timestamp, websocket,
               is_active_event, close_called, closed>>
conn_vars == <<pc, conn_token, conn_sess, init_coro, waited_at_gate, close_code,
               ended_by, disconnect_code>>
hist_vars == <<looked_up, last_message_at, handshake_failed>>
upload_vars == <<pending_file_uploads, num_uploads, future, chooser, upload_pc,
                 upload_future, reads_left, status_code, last_upload,
                 set_results>>
asset_vars == <<assets, alive, secret_id, hosted, asset_response,
                asset_request>>
shutdown_vars == <<closing, on_app_close_called, server_collected>>
crawler_vars == <<crawler_pc, requested_url, initial_messages, active_page_url,
                  crawler_close_called, index_response, sent>>
route_vars == <<url_of, get_path, dispatched>>
\* The state the session protocol leaves alone.
other_vars == <<upload_vars, asset_vars, shutdown_vars, crawler_vars,
                route_vars>>
vars == <<server_vars, clock_vars, gate_vars, map_vars, sess_vars, conn_vars,
          hist_vars, other_vars>>

\* Positions of _serve_websocket at which the handler is inside sess.serve().
ServingPcs == {"serving", "receiving"}
\* Positions at which the handler has returned or raised.
EndedPcs == {"closed_invalid", "failed", "ended"}

\* The parameters of an upload request, before the first request.
NoRequest == [upload_token |-> NoUpload, n_names |-> 0, n_types |-> 0,
              file_sizes |-> <<>>, n_streams |-> 0]

\* The response of _serve_index, before the first page request of a crawler.
NoResponse == [kind |-> "none", status |-> 0, location |-> NoUrl,
               session_token |-> NoToken, initial_messages |-> <<>>]

\* FastapiServer.__init__: the lifespan has not started, both maps are empty,
\* the gate is open.
Constructed(in_window) ==
    /\ lifespan = "startup"
    /\ running_in_window = in_window
    /\ reaper_task = FALSE
    /\ reaper_wake = 0
    /\ now = 0
    /\ ticks = 0
    /\ can_create_new_sessions = TRUE
    /\ blocks = 0
    /\ next_token = 1
    /\ latent_session_tokens = {}
    /\ active_session_tokens = [t \in Tokens |-> NoSession]
    /\ num_sessions = 0
    /\ sess_token = [s \in Sessions |-> NoToken]
    /\ last_interaction_timestamp = [s \in Sessions |-> 0]
    /\ websocket = [s \in Sessions |-> NoConn]
    /\ is_active_event = [s \in Sessions |-> FALSE]
    /\ close_called = [s \in Sessions |-> FALSE]
    /\ closed = [s \in Sessions |-> FALSE]
    /\ pc = [c \in Conns |-> "idle"]
    /\ conn_token = [c \in Conns |-> NoToken]
    /\ conn_sess = [c \in Conns |-> NoSession]
    /\ init_coro = [c \in Conns |-> "none"]
    /\ waited_at_gate = [c \in Conns |-> FALSE]
    /\ close_code = [c \in Conns |-> 0]
    /\ ended_by = [c \in Conns |-> "none"]
    /\ disconnect_code = [c \in Conns |-> 0]
    /\ looked_up = {}
    /\ last_message_at = [s \in Sessions |-> -1]
    /\ handshake_failed = {}
    /\ pending_file_uploads = [u \in UploadTokens |-> -1]
    /\ num_uploads = 0
    /\ future = [u \in UploadTokens |-> "none"]
    /\ chooser = [u \in UploadTokens |-> "idle"]
    /\ upload_pc = [r \in Requests |-> "idle"]
    /\ upload_future = [r \in Requests |-> NoUpload]
    /\ reads_left = [r \in Requests |-> 0]
    /\ status_code = [r \in Requests |-> 0]
    /\ last_upload = NoRequest
    /\ set_results = [u \in UploadTokens |-> 0]
    /\ assets = [i \in AssetIds |-> NoAsset]
    /\ alive = [a \in AssetObjs |-> FALSE]
    /\ secret_id = [a \in AssetObjs |-> 0]
    /\ hosted = {}
    /\ asset_response = [status |-> 0, asset |-> NoAsset]
    /\ asset_request = 0
    /\ closing = [s \in Sessions |-> "none"]
    /\ on_app_close_called = FALSE
    /\ server_collected = FALSE
    /\ crawler_pc = "idle"
    /\ requested_url = NoUrl
    /\ initial_messages = <<>>
    /\ active_page_url = NoUrl
    /\ crawler_close_called = FALSE
    /\ index_response = NoResponse
    /\ sent = <<>>
    /\ url_of = [a \in AssetObjs |-> <<>>]
    /\ get_path = <<>>
    /\ dispatched = "none"

\* A server constructed to run as a server (`rio run`, not in a window).
Init == Constructed(FALSE)
\* A server constructed in either mode.
InitAnyMode == \E in_window \in BOOLEAN : Constructed(in_window)

\* ------------------------------------------------------------- lifespan
\* _lifespan up to its yield: in server mode the clean-up task is created and
\* goes to sleep for LOOP_INTERVAL; connections are served afterwards.
lifespan_start ==
    /\ lifespan = "startup"
    /\ lifespan' = "serving"
    /\ reaper_task' = ~running_in_window
    /\ reaper_wake' = IF running_in_window THEN 0 ELSE now + LOOP_INTERVAL
    /\ UNCHANGED <<hist_vars, other_vars>>
    /\ UNCHANGED <<running_in_window, clock_vars, gate_vars, map_vars,
                   sess_vars, conn_vars>>

\* The monotonic clock advances (it is looked at once the lifespan has
\* started).
tick(d) ==
    /\ lifespan # "startup"
    /\ ticks < MaxTicks
    /\ now' = now + d
    /\ ticks' = ticks + 1
    /\ UNCHANGED <<hist_vars, other_vars>>
    /\ UNCHANGED <<server_vars, gate_vars, map_vars,
                   sess_vars, conn_vars>>

\* ----------------------------------------------------------------- gate
\* temporarily_disable_new_session_creation, entry: Event.clear().
disable_new_session_creation_enter ==
    /\ blocks < MaxBlocks
    /\ blocks' = blocks + 1
    /\ can_create_new_sessions' = FALSE
    /\ UNCHANGED <<hist_vars, other_vars>>
    /\ UNCHANGED <<server_vars, clock_vars, map_vars,
                   sess_vars, conn_vars>>

\* temporarily_disable_new_session_creation is entered while another block
\* is active (inside its body, or by another task): Event.clear() again.
disable_new_session_creation_enter_nested ==
    /\ blocks >= 1
    /\ blocks < MaxNesting
    /\ blocks' = blocks + 1
    /\ can_create_new_sessions' = FALSE
    /\ UNCHANGED <<hist_vars, other_vars>>
    /\ UNCHANGED <<server_vars, clock_vars, map_vars,
                   sess_vars, conn_vars>>

\* Mutant: a wake-up is lost, the waiters stay where they are.
EventSetWakes_Lost(c) == pc[c]

\* asyncio.Event.set(): every coroutine waiting on the event is woken; a woken
\* waiter goes on even if the event is cleared again before it runs.
EventSetWakes(c) == IF pc[c] = "gate_wait" THEN "gate_passed" ELSE pc[c]

\* temporarily_disable_new_session_creation, exit (finally): Event.set().
disable_new_session_creation_exit ==
    /\ blocks > 0
    /\ blocks' = blocks - 1
    /\ can_create_new_sessions' = TRUE
    /\ pc' = [c \in Conns |-> EventSetWakes(c)]
    /\ UNCHANGED <<hist_vars, other_vars>>
    /\ UNCHANGED <<server_vars, clock_vars, map_vars,
                   sess_vars, conn_token, conn_sess, init_coro,
                   waited_at_gate, close_code,
                   ended_by, disconnect_code>>

\* ----------------------------------------------------------- _serve_index
\* Mutant: the latent map is replaced instead of extended.
RegisterLatent_Replace(t) == {t}

\* The latent map after a page request of a browser was given token t.
RegisterLatent(t) == latent_session_tokens \cup {t}

\* _serve_index, not a crawler: a fresh token is stored in the latent map.
serve_index_browser ==
    /\ lifespan = "serving"
    /\ next_token <= MaxTokens
    /\ latent_session_tokens' = RegisterLatent(next_token)
    /\ next_token' = next_token + 1
    /\ UNCHANGED <<hist_vars, other_vars>>
    /\ UNCHANGED <<server_vars, clock_vars, gate_vars, active_session_tokens,
                   sess_vars, conn_vars>>

\* -------------------------------------------------------- _serve_websocket
\* Mutant: the handler does not wait for the event.
GateWait_NoWait == "gate_passed"

\* What `await self._can_create_new_sessions.wait()` does to a handler that
\* starts now: it goes on at once when the event is set, and waits otherwise.
GateWait == IF can_create_new_sessions THEN "gate_passed" ELSE "gate_wait"

\* A websocket upgrade with ?sessionToken=tok arrives.
ws_connect(c, tok) ==
    /\ lifespan = "serving"
    /\ pc[c] = "idle"
    /\ tok \in {NoToken} \cup (1 .. (next_token - 1))
    /\ pc' = [pc EXCEPT ![c] = GateWait]
    /\ waited_at_gate' = [waited_at_gate EXCEPT ![c] = ~can_create_new_sessions]
    /\ conn_token' = [conn_token EXCEPT ![c] = tok]
    /\ UNCHANGED <<hist_vars, other_vars>>
    /\ UNCHANGED <<server_vars, clock_vars, gate_vars, map_vars,
                   sess_vars, conn_sess, init_coro, close_code,
                   ended_by, disconnect_code>>

\* await websocket.accept()
ws_accept(c) ==
    /\ pc[c] = "gate_passed"
    /\ pc' = [pc EXCEPT ![c] = "accepted"]
    /\ UNCHANGED <<hist_vars, other_vars>>
    /\ UNCHANGED <<server_vars, clock_vars, gate_vars, map_vars,
                   sess_vars, conn_token, conn_sess,
                   init_coro, waited_at_gate, close_code,
                   ended_by, disconnect_code>>

InLatent(tok) == tok \in latent_session_tokens
InActive(tok) == tok \in Tokens /\ active_session_tokens[tok] # NoSession

\* Mutant: the pop empties the latent map.
PopLatent_All(tok) == {}

\* Mutant: the token is read from the latent map, not popped.
PopLatent_Keep(tok) == latent_session_tokens

\* self._latent_session_tokens.pop(session_token)
PopLatent(tok) == latent_session_tokens \ {tok}

\* The token is latent: it is popped, and _create_session_from_websocket
\* starts waiting for the initial message.
lookup_latent(c) ==
    /\ InLatent(conn_token[c])
    /\ latent_session_tokens' = PopLatent(conn_token[c])
    /\ pc' = [pc EXCEPT ![c] = "await_initial"]
    /\ UNCHANGED <<next_token, active_session_tokens, sess_vars, conn_sess,
                   init_coro, close_code,
                   ended_by, disconnect_code>>

\* Mutant: the reconnect branch launches the refresh of a new session.
ReconnectCoro_Refresh == "refresh"

\* The coroutine the reconnect branch launches.
ReconnectCoro == "send_all_components_on_reconnect"
\* The session the reconnect branch serves.
ReconnectSession(tok) == active_session_tokens[tok]

\* The token is active (a reconnect): the session of the active map is marked
\* active, its full-state resend is launched and it is served.
lookup_active(c) ==
    /\ ~InLatent(conn_token[c])
    /\ InActive(conn_token[c])
    /\ LET sess == ReconnectSession(conn_token[c]) IN
        /\ conn_sess' = [conn_sess EXCEPT ![c] = sess]
        /\ is_active_event' = [is_active_event EXCEPT ![sess] = TRUE]
    /\ init_coro' = [init_coro EXCEPT ![c] = ReconnectCoro]
    /\ pc' = [pc EXCEPT ![c] = "serving"]
    /\ UNCHANGED <<map_vars, num_sessions, sess_token,
                   last_interaction_timestamp, websocket, close_called,
                   closed, close_code,
                   ended_by, disconnect_code>>

\* Mutant: an unknown token is treated like a latent one.
lookup_invalid_AsLatent(c) ==
    /\ ~InLatent(conn_token[c])
    /\ ~InActive(conn_token[c])
    /\ pc' = [pc EXCEPT ![c] = "await_initial"]
    /\ UNCHANGED <<map_vars, sess_vars, conn_sess, init_coro, close_code,
                   ended_by, disconnect_code>>

\* The token is in neither map: websocket.close(3000, ...) and return.
lookup_invalid(c) ==
    /\ ~InLatent(conn_token[c])
    /\ ~InActive(conn_token[c])
    /\ pc' = [pc EXCEPT ![c] = "closed_invalid"]
    /\ close_code' = [close_code EXCEPT ![c] = INVALID_TOKEN_CODE]
    /\ UNCHANGED <<map_vars, sess_vars, conn_sess, init_coro>>

\* _serve_websocket from the accepted socket to its next suspension point.
ws_lookup(c) ==
    /\ pc[c] = "accepted"
    /\ \/ lookup_latent(c)
       \/ lookup_active(c)
       \/ lookup_invalid(c)
    /\ looked_up' = looked_up \cup ({conn_token[c]} \cap Tokens)
    /\ UNCHANGED <<server_vars, clock_vars, gate_vars,
                   conn_token, waited_at_gate, ended_by, disconnect_code,
                   last_message_at, handshake_failed, other_vars>>

\* The initial message arrives within the timeout and parses:
\* create_session is awaited.
ws_initial_message(c) ==
    /\ pc[c] = "await_initial"
    /\ pc' = [pc EXCEPT ![c] = "creating"]
    /\ UNCHANGED <<hist_vars, other_vars>>
    /\ UNCHANGED <<server_vars, clock_vars, gate_vars, map_vars,
                   sess_vars, conn_token, conn_sess,
                   init_coro, waited_at_gate, close_code,
                   ended_by, disconnect_code>>

\* Mutant: the timeout is swallowed and the handshake goes on.
ws_initial_message_fails_Swallowed(c) ==
    /\ pc[c] = "await_initial"
    /\ pc' = [pc EXCEPT ![c] = "creating"]
    /\ handshake_failed' = handshake_failed \cup {conn_token[c]}
    /\ UNCHANGED <<looked_up, last_message_at, other_vars>>
    /\ UNCHANGED <<server_vars, clock_vars, gate_vars, map_vars,
                   sess_vars, conn_token, conn_sess,
                   init_coro, waited_at_gate, close_code,
                   ended_by, disconnect_code>>

\* asyncio.wait_for times out after 60 seconds, or the message does not
\* parse: the exception leaves _serve_websocket.
ws_initial_message_fails(c) ==
    /\ pc[c] = "await_initial"
    /\ pc' = [pc EXCEPT ![c] = "failed"]
    /\ handshake_failed' = handshake_failed \cup {conn_token[c]}
    /\ UNCHANGED <<looked_up, last_message_at, other_vars>>
    /\ UNCHANGED <<server_vars, clock_vars, gate_vars, map_vars,
                   sess_vars, conn_token, conn_sess,
                   init_coro, waited_at_gate, close_code,
                   ended_by, disconnect_code>>

\* create_session raises NavigationFailed: HTTPException(500) leaves
\* _serve_websocket.
ws_navigation_failed(c) ==
    /\ pc[c] = "creating"
    /\ pc' = [pc EXCEPT ![c] = "failed"]
    /\ handshake_failed' = handshake_failed \cup {conn_token[c]}
    /\ UNCHANGED <<looked_up, last_message_at, other_vars>>
    /\ UNCHANGED <<server_vars, clock_vars, gate_vars, map_vars,
                   sess_vars, conn_token, conn_sess,
                   init_coro, waited_at_gate, close_code,
                   ended_by, disconnect_code>>

\* self._active_session_tokens[session_token] = sess
RegisterActive(tok, sess) == [active_session_tokens EXCEPT ![tok] = sess]

\* create_session(websocket=websocket, receive_message=...): the session
\* object sess is constructed for connection c; its receive_message closure
\* captures the token tok, its timestamp is the time of construction and its
\* is-active signal is set.
create_session(sess, tok, c) ==
    /\ num_sessions' = sess
    /\ sess_token' = [sess_token EXCEPT ![sess] = tok]
    /\ last_interaction_timestamp' =
           [last_interaction_timestamp EXCEPT ![sess] = now]
    /\ websocket' = [websocket EXCEPT ![sess] = c]
    /\ is_active_event' = [is_active_event EXCEPT ![sess] = TRUE]

\* create_session returns the new session: it is stored in the active map,
\* its refresh is launched and it is served.
ws_session_created(c) ==
    /\ pc[c] = "creating"
    /\ num_sessions < MaxSessions
    /\ LET sess == num_sessions + 1
           tok == conn_token[c] IN
        /\ create_session(sess, tok, c)
        /\ active_session_tokens' = RegisterActive(tok, sess)
        /\ conn_sess' = [conn_sess EXCEPT ![c] = sess]
    /\ init_coro' = [init_coro EXCEPT ![c] = "refresh"]
    /\ pc' = [pc EXCEPT ![c] = "serving"]
    /\ UNCHANGED <<hist_vars, other_vars>>
    /\ UNCHANGED <<server_vars, clock_vars, gate_vars, next_token,
                   latent_session_tokens, close_called,
                   closed, conn_token, waited_at_gate, close_code,
                   ended_by, disconnect_code>>

\* sess.serve() calls receive_message: the session is stored in the active
\* map under its token again, then a message is awaited.
serve_receive_message(c) ==
    /\ pc[c] = "serving"
    /\ LET sess == conn_sess[c] IN
        active_session_tokens' = RegisterActive(sess_token[sess], sess)
    /\ pc' = [pc EXCEPT ![c] = "receiving"]
    /\ UNCHANGED <<hist_vars, other_vars>>
    /\ UNCHANGED <<server_vars, clock_vars, gate_vars, next_token,
                   latent_session_tokens, sess_vars,
                   conn_token, conn_sess, init_coro, waited_at_gate, close_code,
                   ended_by, disconnect_code>>

\* Mutant: a client message leaves the timestamp alone.
OnClientMessage_Noop(sess) == last_interaction_timestamp

\* The session's timestamps after it has processed a client message.
OnClientMessage(sess) == [last_interaction_timestamp EXCEPT ![sess] = now]

\* websocket.receive_json() returns a client message to sess.serve().
serve_message_arrives(c) ==
    /\ pc[c] = "receiving"
    /\ last_interaction_timestamp' = OnClientMessage(conn_sess[c])
    /\ last_message_at' = [last_message_at EXCEPT ![conn_sess[c]] = now]
    /\ UNCHANGED <<looked_up, handshake_failed, other_vars>>
    /\ pc' = [pc EXCEPT ![c] = "serving"]
    /\ UNCHANGED <<server_vars, clock_vars, gate_vars, map_vars,
                   num_sessions, sess_token, websocket,
                   is_active_event, close_called, closed, conn_token,
                   conn_sess, init_coro, waited_at_gate, close_code,
                   ended_by, disconnect_code>>

\* Mutant: every disconnect closes the session.
DisconnectCloses_Always(code) == TRUE

\* Mutant: no disconnect closes the session.
DisconnectCloses_Never(code) == FALSE

\* `if err.code == 1001`: the connection was closed on purpose.
DisconnectCloses(code) == code = GOING_AWAY_CODE

\* The end of `await sess.serve()`: the except or else branch has called
\* sess.close() or not, then `finally` takes the socket from the session and
\* clears its is-active signal. by and code record what ended the serving.
ServeEnds(c, by, code, close) ==
    /\ LET sess == conn_sess[c] IN
        /\ close_called' = [close_called EXCEPT ![sess] = @ \/ close]
        /\ websocket' = [websocket EXCEPT ![sess] = NoConn]
        /\ is_active_event' = [is_active_event EXCEPT ![sess] = FALSE]
    /\ pc' = [pc EXCEPT ![c] = "ended"]
    /\ ended_by' = [ended_by EXCEPT ![c] = by]
    /\ disconnect_code' = [disconnect_code EXCEPT ![c] = code]
    /\ UNCHANGED <<hist_vars, other_vars>>
    /\ UNCHANGED <<server_vars, clock_vars, gate_vars, map_vars,
                   num_sessions, sess_token,
                   last_interaction_timestamp, closed, conn_token, conn_sess,
                   init_coro, waited_at_gate, close_code>>

\* receive_message raises WebSocketDisconnect(code): the session is closed
\* when the code is 1001.
serve_disconnect(c, code) ==
    /\ pc[c] = "receiving"
    /\ ServeEnds(c, "disconnect", code, DisconnectCloses(code))

\* sess.serve() is cancelled (`except asyncio.CancelledError: pass`), by the
\* server or because the session was closed: no close.
serve_cancelled(c) ==
    /\ pc[c] \in ServingPcs \cup {"cancelled"}
    /\ ServeEnds(c, "cancelled", 0, FALSE)

\* sess.serve() raises another exception (a socket error): no except branch
\* takes it, `finally` runs and the exception leaves the handler.
serve_raises(c) ==
    /\ pc[c] \in ServingPcs
    /\ ServeEnds(c, "error", 0, FALSE)

\* sess.serve() returns (the `else` branch): the session is closed.
serve_returns(c) ==
    /\ pc[c] \in ServingPcs
    /\ ServeEnds(c, "returned", 0, TRUE)

\* The handler's coroutine is gone; another connection can take its place.
ws_release(c) ==
    /\ pc[c] \in EndedPcs
    /\ pc' = [pc EXCEPT ![c] = "idle"]
    /\ conn_token' = [conn_token EXCEPT ![c] = NoToken]
    /\ conn_sess' = [conn_sess EXCEPT ![c] = NoSession]
    /\ init_coro' = [init_coro EXCEPT ![c] = "none"]
    /\ waited_at_gate' = [waited_at_gate EXCEPT ![c] = FALSE]
    /\ close_code' = [close_code EXCEPT ![c] = 0]
    /\ ended_by' = [ended_by EXCEPT ![c] = "none"]
    /\ disconnect_code' = [disconnect_code EXCEPT ![c] = 0]
    /\ UNCHANGED <<hist_vars, other_vars>>
    /\ UNCHANGED <<server_vars, clock_vars, gate_vars, map_vars,
                   sess_vars>>

\* ------------------------------------------------------------ Session.close
\* sess.close() is called by the application or by the session itself.
session_close(sess) ==
    /\ sess <= num_sessions
    /\ ~close_called[sess]
    /\ close_called' = [close_called EXCEPT ![sess] = TRUE]
    /\ UNCHANGED <<hist_vars, other_vars>>
    /\ UNCHANGED <<server_vars, clock_vars, gate_vars, map_vars,
                   num_sessions, sess_token,
                   last_interaction_timestamp, websocket, is_active_event,
                   closed, conn_vars>>

\* Mutant: closing a session leaves its serve loop running.
CloseCancels_Not(c, sess) == pc[c]

\* Closing a session cancels its serve loop: the position of handler c once
\* sess has been closed. A cancelled handler can only take its
\* `except asyncio.CancelledError` branch.
CloseCancels(c, sess) ==
    IF pc[c] \in ServingPcs /\ conn_sess[c] = sess THEN "cancelled" ELSE pc[c]

\* The active map once sess has been taken out of it.
RemoveSession(sess) ==
    [t \in Tokens |-> IF active_session_tokens[t] = sess
                      THEN NoSession ELSE active_session_tokens[t]]

\* The task sess.close() started: the serve loop of the session is cancelled
\* and the session leaves the active map.
session_close_task(sess) ==
    /\ close_called[sess]
    /\ ~closed[sess]
    /\ closed' = [closed EXCEPT ![sess] = TRUE]
    /\ active_session_tokens' = RemoveSession(sess)
    /\ pc' = [c \in Conns |-> CloseCancels(c, sess)]
    /\ UNCHANGED <<hist_vars, other_vars>>
    /\ UNCHANGED <<server_vars, clock_vars, gate_vars, next_token,
                   latent_session_tokens, num_sessions,
                   sess_token, last_interaction_timestamp, websocket,
                   is_active_event, close_called, conn_token, conn_sess,
                   init_coro, waited_at_gate, close_code, ended_by,
                   disconnect_code>>

\* ---------------------------------- _periodically_clean_up_expired_sessions
\* Mutant: a timestamp equal to the cutoff counts as expired.
Expired_Inclusive(sess, cutoff) == last_interaction_timestamp[sess] <= cutoff

\* sess._last_interaction_timestamp < cutoff
Expired(sess, cutoff) == last_interaction_timestamp[sess] < cutoff

\* The sessions that are values of the active map.
ActiveSessions == {active_session_tokens[t] : t \in Tokens} \ {NoSession}

\* One pass of the clean-up loop after its sleep, the server object being
\* there: close() is called on every active session whose timestamp is
\* before the cutoff; then it sleeps again.
clean_up_expired_sessions ==
    /\ reaper_task
    /\ now >= reaper_wake
    /\ ~server_collected
    /\ LET cutoff == now - SESSION_LIFETIME IN
        close_called' = [s \in Sessions |->
            close_called[s] \/ (s \in ActiveSessions /\ Expired(s, cutoff))]
    /\ reaper_wake' = now + LOOP_INTERVAL
    /\ UNCHANGED <<hist_vars, other_vars>>
    /\ UNCHANGED <<lifespan, running_in_window, reaper_task, clock_vars,
                   gate_vars, map_vars, num_sessions,
                   sess_token, last_interaction_timestamp, websocket,
                   is_active_event, closed, conn_vars>>

\* ------------------------------------------------------------ file uploads
\* timer_dict.TimerDict(default_duration=timedelta(minutes=15)), in seconds.
UPLOAD_DURATION == 15 * 60
HTTP_200_OK == 200
HTTP_400_BAD_REQUEST == 400
HTTP_422_UNPROCESSABLE_ENTITY == 422
\* The response to a request whose handler raised another exception.
HTTP_500_INTERNAL_SERVER_ERROR == 500

\* While uploads are pending the clock advances in steps of ten minutes.
UploadTickSteps == {10 * 60}

\* Strings are sequences of characters. The file_sizes a request can carry.
SizeStrings == {<<"7">>, <<"-", "1">>, <<"a">>}
DigitChars == <<"0", "1", "2", "3", "4", "5", "6", "7", "8", "9">>
IsDigit(ch) == \E i \in DOMAIN DigitChars : DigitChars[i] = ch
DigitValue(ch) == (CHOOSE i \in DOMAIN DigitChars : DigitChars[i] = ch) - 1
\* The digits of an integer literal: the string without its sign.
Unsigned(str) ==
    IF str # <<>> /\ str[1] \in {"-", "+"} THEN Tail(str) ELSE str
\* int(str) does not raise ValueError: an optional sign, then digits.
IsIntLiteral(str) ==
    /\ Unsigned(str) # <<>>
    /\ \A i \in DOMAIN Unsigned(str) : IsDigit(Unsigned(str)[i])
RECURSIVE DecimalValue(_)
DecimalValue(digits) ==
    IF digits = <<>> THEN 0
    ELSE 10 * DecimalValue(SubSeq(digits, 1, Len(digits) - 1))
         + DigitValue(digits[Len(digits)])
\* int(str) of an integer literal.
IntValue(str) ==
    IF str[1] = "-" THEN 0 - DecimalValue(Unsigned(str))
    ELSE DecimalValue(Unsigned(str))

\* The file_sizes lists a request can carry.
SizeLists == UNION {[1 .. n -> SizeStrings] : n \in 0 .. MaxFiles}

\* The time at which the entry of upload token tok leaves the TimerDict.
ExpiresAt(tok) == pending_file_uploads[tok] + UPLOAD_DURATION

\* self._pending_file_uploads.pop(upload_token) does not raise KeyError: the
\* token was stored, has not been popped and has not expired.
IsPending(tok) ==
    /\ tok \in UploadTokens
    /\ pending_file_uploads[tok] >= 0
    /\ now < ExpiresAt(tok)

\* Mutant: the future is read from the TimerDict and left in it.
PopPending_Keep(tok) == pending_file_uploads

\* The TimerDict after pop(upload_token).
PopPending(tok) == [pending_file_uploads EXCEPT ![tok] = -1]

\* `n_names != n_types or n_names != n_sizes or n_names != n_streams`
LengthMismatch(n_names, n_types, n_sizes, n_streams) ==
    n_names # n_types \/ n_names # n_sizes \/ n_names # n_streams

\* Mutant: negative sizes are accepted.
InvalidFileSize_SignIgnored(file_size) == ~IsIntLiteral(file_size)

\* The loop over file_sizes raises 422 for this one: int() raises
\* ValueError, or the parsed size is negative.
InvalidFileSize(file_size) ==
    ~IsIntLiteral(file_size) \/ IntValue(file_size) < 0

\* file_chooser up to its first await: a new token and a new future are
\* stored in the TimerDict; the frontend is then asked to upload.
file_chooser ==
    /\ lifespan = "serving"
    /\ num_uploads < MaxUploads
    /\ LET upload_id == num_uploads + 1 IN
        /\ num_uploads' = upload_id
        /\ future' = [future EXCEPT ![upload_id] = "pending"]
        /\ pending_file_uploads' =
               [pending_file_uploads EXCEPT ![upload_id] = now]
        /\ chooser' = [chooser EXCEPT ![upload_id] = "request_file_upload"]
    /\ UNCHANGED <<upload_pc, upload_future, reads_left, status_code,
                   last_upload, set_results>>
    /\ UNCHANGED <<server_vars, clock_vars, gate_vars, map_vars, sess_vars,
                   conn_vars, hist_vars, asset_vars, shutdown_vars,
                   crawler_vars, route_vars>>

\* session._request_file_upload has returned: `files = await future`. The
\* coroutine goes on at once when the future is done, and waits otherwise.
file_chooser_awaits(u) ==
    /\ chooser[u] = "request_file_upload"
    /\ chooser' = [chooser EXCEPT ![u] =
                       IF future[u] = "done" THEN "resumed" ELSE "await_future"]
    /\ UNCHANGED <<pending_file_uploads, num_uploads, future, upload_pc,
                   upload_future, reads_left, status_code, last_upload,
                   set_results>>
    /\ UNCHANGED <<server_vars, clock_vars, gate_vars, map_vars, sess_vars,
                   conn_vars, hist_vars, asset_vars, shutdown_vars,
                   crawler_vars, route_vars>>

\* The task running file_chooser is cancelled: a future it awaits is
\* cancelled with it.
file_chooser_cancelled(u) ==
    /\ chooser[u] \in {"request_file_upload", "await_future"}
    /\ chooser' = [chooser EXCEPT ![u] = "cancelled"]
    /\ future' = [future EXCEPT ![u] =
                      IF chooser[u] = "await_future" /\ @ = "pending"
                      THEN "cancelled" ELSE @]
    /\ UNCHANGED <<pending_file_uploads, num_uploads, upload_pc,
                   upload_future, reads_left, status_code, last_upload,
                   set_results>>
    /\ UNCHANGED <<server_vars, clock_vars, gate_vars, map_vars, sess_vars,
                   conn_vars, hist_vars, asset_vars, shutdown_vars,
                   crawler_vars, route_vars>>

\* The future of upload token u is done: the file_chooser awaiting it goes on
\* (it returns the files or raises NoFileSelectedError).
file_chooser_resumes(u) ==
    /\ chooser[u] = "await_future"
    /\ future[u] = "done"
    /\ chooser' = [chooser EXCEPT ![u] = "resumed"]
    /\ UNCHANGED <<pending_file_uploads, num_uploads, future, upload_pc,
                   upload_future, reads_left, status_code, last_upload,
                   set_results>>
    /\ UNCHANGED <<server_vars, clock_vars, gate_vars, map_vars, sess_vars,
                   conn_vars, hist_vars, asset_vars, shutdown_vars,
                   crawler_vars, route_vars>>

\* future.set_result(...) by request r, followed by the 200 response; on a
\* future that is not pending set_result raises InvalidStateError.
SetResult(r, u) ==
    IF future[u] = "pending"
    THEN /\ future' = [future EXCEPT ![u] = "done"]
         /\ set_results' = [set_results EXCEPT ![u] = @ + 1]
         /\ status_code' = [status_code EXCEPT ![r] = HTTP_200_OK]
    ELSE /\ status_code' =
                [status_code EXCEPT ![r] = HTTP_500_INTERNAL_SERVER_ERROR]
         /\ UNCHANGED <<future, set_results>>

\* _serve_file_upload from the request to its first await (the read of the
\* first file stream) or, without one, to its response. The request is
\* answered by the first handler that is free; tok is a token file_chooser
\* has made or any other string.
serve_file_upload(r, tok, n_names, n_types, file_sizes, n_streams) ==
    /\ lifespan = "serving"
    /\ upload_pc[r] = "idle"
    /\ \A q \in Requests : q < r => upload_pc[q] # "idle"
    /\ tok \in {NoUpload} \cup (1 .. num_uploads)
    /\ last_upload' = [upload_token |-> tok,
                       n_names |-> n_names, n_types |-> n_types,
                       file_sizes |-> file_sizes, n_streams |-> n_streams]
    /\ IF ~IsPending(tok)
       THEN /\ status_code' = [status_code EXCEPT ![r] = HTTP_400_BAD_REQUEST]
            /\ upload_pc' = [upload_pc EXCEPT ![r] = "responded"]
            /\ UNCHANGED <<pending_file_uploads, future, set_results,
                           upload_future, reads_left>>
       ELSE /\ pending_file_uploads' = PopPending(tok)
            /\ upload_future' = [upload_future EXCEPT ![r] = tok]
            /\ IF \/ LengthMismatch(n_names, n_types, Len(file_sizes),
                                    n_streams)
                  \/ \E i \in DOMAIN file_sizes : InvalidFileSize(file_sizes[i])
               THEN /\ status_code' = [status_code EXCEPT ![r] =
                                           HTTP_422_UNPROCESSABLE_ENTITY]
                    /\ upload_pc' = [upload_pc EXCEPT ![r] = "responded"]
                    /\ UNCHANGED <<future, set_results, reads_left>>
               ELSE IF n_names = 0
               THEN /\ SetResult(r, tok)
                    /\ upload_pc' = [upload_pc EXCEPT ![r] = "responded"]
                    /\ UNCHANGED reads_left
               ELSE /\ reads_left' = [reads_left EXCEPT ![r] = n_names]
                    /\ upload_pc' = [upload_pc EXCEPT ![r] = "reading"]
                    /\ UNCHANGED <<future, set_results, status_code>>
    /\ UNCHANGED <<num_uploads, chooser>>
    /\ UNCHANGED <<server_vars, clock_vars, gate_vars, map_vars, sess_vars,
                   conn_vars, hist_vars, asset_vars, shutdown_vars,
                   crawler_vars, route_vars>>

\* `await file_streams[ii].read()` returns; after the last one the future
\* is completed and the response is sent.
upload_read(r) ==
    /\ upload_pc[r] = "reading"
    /\ reads_left' = [reads_left EXCEPT ![r] = @ - 1]
    /\ IF reads_left[r] = 1
       THEN /\ SetResult(r, upload_future[r])
            /\ upload_pc' = [upload_pc EXCEPT ![r] = "responded"]
       ELSE UNCHANGED <<future, set_results, status_code, upload_pc>>
    /\ UNCHANGED <<pending_file_uploads, num_uploads, chooser, upload_future,
                   last_upload>>
    /\ UNCHANGED <<server_vars, clock_vars, gate_vars, map_vars, sess_vars,
                   conn_vars, hist_vars, asset_vars, shutdown_vars,
                   crawler_vars, route_vars>>

\* `await file_streams[ii].read()` raises: the exception leaves the handler
\* and the future stays as it is.
upload_read_fails(r) ==
    /\ upload_pc[r] = "reading"
    /\ status_code' = [status_code EXCEPT ![r] = HTTP_500_INTERNAL_SERVER_ERROR]
    /\ upload_pc' = [upload_pc EXCEPT ![r] = "responded"]
    /\ reads_left' = [reads_left EXCEPT ![r] = 0]
    /\ UNCHANGED <<pending_file_uploads, num_uploads, future, chooser,
                   upload_future, last_upload, set_results>>
    /\ UNCHANGED <<server_vars, clock_vars, gate_vars, map_vars, sess_vars,
                   conn_vars, hist_vars, asset_vars, shutdown_vars,
                   crawler_vars, route_vars>>

\* The request has been answered; another request can take its place.
upload_release(r) ==
    /\ upload_pc[r] = "responded"
    /\ upload_pc' = [upload_pc EXCEPT ![r] = "idle"]
    /\ upload_future' = [upload_future EXCEPT ![r] = NoUpload]
    /\ status_code' = [status_code EXCEPT ![r] = 0]
    /\ UNCHANGED <<pending_file_uploads, num_uploads, future, chooser,
                   reads_left, last_upload, set_results>>
    /\ UNCHANGED <<server_vars, clock_vars, gate_vars, map_vars, sess_vars,
                   conn_vars, hist_vars, asset_vars, shutdown_vars,
                   crawler_vars, route_vars>>

\* ------------------------------------------------------------------ assets
HTTP_404_NOT_FOUND == 404

\* The application constructs asset object a, with secret id i, and holds it.
asset_constructed(a, i) ==
    /\ secret_id[a] = 0
    /\ \A b \in AssetObjs : b < a => secret_id[b] # 0
    /\ secret_id' = [secret_id EXCEPT ![a] = i]
    /\ alive' = [alive EXCEPT ![a] = TRUE]
    /\ UNCHANGED <<assets, hosted, asset_response, asset_request>>
    /\ UNCHANGED <<server_vars, clock_vars, gate_vars, map_vars, sess_vars,
                   conn_vars, hist_vars, upload_vars, shutdown_vars,
                   crawler_vars, route_vars>>

\* A URL path is the sequence of its segments; a segment is a name or an
\* asset id.
Lit(name) == [name |-> name, id |-> 0]
IdSeg(i) == [name |-> "", id |-> i]

\* "/rio/asset/temp/{asset_id:path}" with asset id i.
TempAssetPath(i) == <<Lit("rio"), Lit("asset"), Lit("temp"), IdSeg(i)>>

\* f"/rio/assets/temp/{asset.secret_id}"
AssetUrl(i) == <<Lit("rio"), Lit("assets"), Lit("temp"), IdSeg(i)>>

\* self._assets[asset.secret_id] = asset
HostAsset(a) == [assets EXCEPT ![secret_id[a]] = a]

\* weakly_host_asset(asset), called by the owner of a live asset.
weakly_host_asset(a) ==
    /\ alive[a]
    /\ assets' = HostAsset(a)
    /\ hosted' = hosted \cup {a}
    /\ url_of' = [url_of EXCEPT ![a] = AssetUrl(secret_id[a])]
    /\ UNCHANGED <<alive, secret_id, asset_response, asset_request>>
    /\ UNCHANGED <<server_vars, clock_vars, gate_vars, map_vars, sess_vars,
                   conn_vars, hist_vars, upload_vars, shutdown_vars,
                   crawler_vars, get_path, dispatched>>

\* The WeakValueDictionary after asset object a has been collected: a key
\* whose value is the dead reference is removed; a key that holds another
\* asset by now is left alone.
DropDeadReference(a) ==
    [i \in AssetIds |-> IF assets[i] = a THEN NoAsset ELSE assets[i]]

\* The owner releases asset a: the object is collected.
asset_released(a) ==
    /\ alive[a]
    /\ alive' = [alive EXCEPT ![a] = FALSE]
    /\ assets' = DropDeadReference(a)
    /\ UNCHANGED <<secret_id, hosted, asset_response, asset_request>>
    /\ UNCHANGED <<server_vars, clock_vars, gate_vars, map_vars, sess_vars,
                   conn_vars, hist_vars, upload_vars, shutdown_vars,
                   crawler_vars, route_vars>>

\* _serve_temp_asset(request, asset_id): 404 on KeyError, else a response
\* with the asset's content (BytesAsset: its data, PathAsset: its file).
serve_temp_asset(asset_id) ==
    /\ lifespan = "serving"
    /\ asset_request' = asset_id
    /\ asset_response' =
           IF assets[asset_id] = NoAsset
           THEN [status |-> HTTP_404_NOT_FOUND, asset |-> NoAsset]
           ELSE [status |-> HTTP_200_OK, asset |-> assets[asset_id]]
    /\ UNCHANGED <<assets, alive, secret_id, hosted>>
    /\ UNCHANGED <<server_vars, clock_vars, gate_vars, map_vars, sess_vars,
                   conn_vars, hist_vars, upload_vars, shutdown_vars,
                   crawler_vars, route_vars>>

\* ---------------------------------------------------------------- routes
\* A route: the names its path starts with, what follows them ("none": the
\* path ends there, "segment": one segment, "path": the rest of the path,
\* which a {name:path} parameter takes whole), its methods and its handler.
Route(prefix, param, methods, handler) ==
    [prefix |-> prefix, param |-> param, methods |-> methods,
     handler |-> handler]

\* The route table, in the order of the add_api_route calls of __init__.
\* The websocket route takes no HTTP request.
Routes ==
    << Route(<<"robots.txt">>, "none", {"GET"}, "_serve_robots"),
       Route(<<"rio", "sitemap">>, "none", {"GET"}, "_serve_sitemap"),
       Route(<<"rio", "favicon.png">>, "none", {"GET"}, "_serve_favicon"),
       Route(<<"rio", "frontend", "assets">>, "path", {"GET"},
             "_serve_frontend_asset"),
       Route(<<"rio", "asset", "special">>, "path", {"GET"},
             "_serve_special_asset"),
       Route(<<"rio", "asset", "hosted">>, "path", {"GET"},
             "_serve_hosted_asset"),
       Route(<<"rio", "asset", "user">>, "path", {"GET"},
             "_serve_user_asset"),
       Route(<<"rio", "asset", "temp">>, "path", {"GET"},
             "_serve_temp_asset"),
       Route(<<"rio", "icon">>, "path", {"GET"}, "_serve_icon"),
       Route(<<"rio", "upload">>, "segment", {"PUT"}, "_serve_file_upload"),
       Route(<<"rio", "ws">>, "none", {}, "_serve_websocket"),
       Route(<<>>, "path", {"GET"}, "_serve_index") >>

\* The route takes a request with this method and path.
Matches(route, method, path) ==
    /\ method \in route.methods
    /\ Len(path) >= Len(route.prefix)
    /\ \A k \in DOMAIN route.prefix : path[k] = Lit(route.prefix[k])
    /\ CASE route.param = "none" -> Len(path) = Len(route.prefix)
         [] route.param = "segment" -> Len(path) = Len(route.prefix) + 1
         [] route.param = "path" -> TRUE

\* The first route of the table that takes the request (the last route takes
\* every GET).
Dispatch(method, path) ==
    Routes[CHOOSE k \in DOMAIN Routes :
              /\ Matches(Routes[k], method, path)
              /\ \A j \in 1 .. (k - 1) : ~Matches(Routes[j], method, path)]

\* The paths clients request: the URLs weakly_host_asset returns, and the
\* paths of the temp-asset route.
RequestPaths ==
    {AssetUrl(i) : i \in AssetIds} \cup {TempAssetPath(i) : i \in AssetIds}

\* GET path: the request is dispatched by the route table. The temp-asset
\* handler answers as _serve_temp_asset does for the id in the path; the
\* index handler stores a fresh token in the latent map and answers with the
\* page.
http_get(path) ==
    /\ lifespan = "serving"
    /\ dispatched = "none"
    /\ LET route == Dispatch("GET", path)
           \* the {asset_id:path} parameter: the rest of the path
           asset_id == path[Len(route.prefix) + 1].id IN
        /\ route.handler \in {"_serve_temp_asset", "_serve_index"}
        /\ dispatched' = route.handler
        /\ get_path' = path
        /\ IF route.handler = "_serve_temp_asset"
           THEN /\ asset_request' = asset_id
                /\ asset_response' =
                       IF assets[asset_id] = NoAsset
                       THEN [status |-> HTTP_404_NOT_FOUND, asset |-> NoAsset]
                       ELSE [status |-> HTTP_200_OK,
                             asset |-> assets[asset_id]]
                /\ UNCHANGED map_vars
           ELSE /\ next_token <= MaxTokens
                /\ latent_session_tokens' = RegisterLatent(next_token)
                /\ next_token' = next_token + 1
                /\ UNCHANGED <<active_session_tokens, asset_request,
                               asset_response>>
    /\ UNCHANGED <<assets, alive, secret_id, hosted, url_of>>
    /\ UNCHANGED <<server_vars, clock_vars, gate_vars, sess_vars,
                   conn_vars, hist_vars, upload_vars, shutdown_vars,
                   crawler_vars>>

\* The response has been sent; the next GET request can come.
http_release ==
    /\ dispatched # "none"
    /\ dispatched' = "none"
    /\ UNCHANGED <<url_of, get_path>>
    /\ UNCHANGED <<server_vars, clock_vars, gate_vars, map_vars, sess_vars,
                   conn_vars, hist_vars, upload_vars, asset_vars,
                   shutdown_vars, crawler_vars>>

\* The clean-up loop wakes up and finds its weak reference dead
\* (`if app_server is None: return`).
reaper_returns ==
    /\ reaper_task
    /\ now >= reaper_wake
    /\ server_collected
    /\ reaper_task' = FALSE
    /\ UNCHANGED <<lifespan, running_in_window, reaper_wake>>
    /\ UNCHANGED <<clock_vars, gate_vars, map_vars, sess_vars, conn_vars,
                   hist_vars, other_vars>>

\* ---------------------------------------------------------------- shutdown
\* The clock steps while the server shuts down: an hour.
ShutdownTickSteps == {60 * 60}

\* Mutant: gather is called without return_exceptions.
ReturnExceptions_False == FALSE

\* asyncio.gather(..., return_exceptions=True)
ReturnExceptions == TRUE

\* `for sess in self._active_session_tokens.values()` at the gather call.
SessionsToClose == ActiveSessions

\* _lifespan after its yield, up to `await asyncio.gather(...)`: a
\* sess._close(close_remote_session=True) is started for every session of
\* the active map.
lifespan_exit ==
    /\ lifespan = "serving"
    /\ lifespan' = "closing"
    /\ closing' = [s \in Sessions |->
                      IF s \in SessionsToClose THEN "running" ELSE "none"]
    /\ UNCHANGED <<running_in_window, reaper_task, reaper_wake,
                   on_app_close_called, server_collected>>
    /\ UNCHANGED <<clock_vars, gate_vars, map_vars, sess_vars, conn_vars,
                   hist_vars, upload_vars, asset_vars,
                   crawler_vars, route_vars>>

\* The sess._close gather started for sess completes: the session is closed,
\* its serve loop cancelled, and it leaves the active map.
shutdown_close_completes(sess) ==
    /\ closing[sess] = "running"
    /\ closing' = [closing EXCEPT ![sess] = "done"]
    /\ closed' = [closed EXCEPT ![sess] = TRUE]
    /\ active_session_tokens' = RemoveSession(sess)
    /\ pc' = [c \in Conns |-> CloseCancels(c, sess)]
    /\ UNCHANGED <<server_vars, clock_vars, gate_vars, next_token,
                   latent_session_tokens, num_sessions, sess_token,
                   last_interaction_timestamp, websocket, is_active_event,
                   close_called, conn_token, conn_sess, init_coro,
                   waited_at_gate, close_code, ended_by, disconnect_code,
                   hist_vars, upload_vars, asset_vars, crawler_vars,
                   route_vars, on_app_close_called,
                   server_collected>>

\* The sess._close gather started for sess raises: with return_exceptions
\* the exception becomes the result of that session and gather goes on
\* waiting for the others; without, it leaves gather and _lifespan at once.
shutdown_close_fails(sess) ==
    /\ closing[sess] = "running"
    /\ closing' = [closing EXCEPT ![sess] = "failed"]
    /\ lifespan' = IF lifespan = "closing" /\ ~ReturnExceptions
                   THEN "raised" ELSE lifespan
    /\ UNCHANGED <<running_in_window, reaper_task, reaper_wake,
                   on_app_close_called, server_collected>>
    /\ UNCHANGED <<clock_vars, gate_vars, map_vars, sess_vars, conn_vars,
                   hist_vars, upload_vars, asset_vars,
                   crawler_vars, route_vars>>

\* gather has a result for every session: the exceptions are printed,
\* _call_on_app_close is awaited (exceptions of the hook are printed and
\* discarded) and _lifespan ends. The clean-up task is left as it is.
lifespan_exit_completes ==
    /\ lifespan = "closing"
    /\ \A s \in Sessions : closing[s] # "running"
    /\ on_app_close_called' = TRUE
    /\ lifespan' = "exited"
    /\ UNCHANGED <<running_in_window, reaper_task, reaper_wake, closing,
                   server_collected>>
    /\ UNCHANGED <<clock_vars, gate_vars, map_vars, sess_vars, conn_vars,
                   hist_vars, upload_vars, asset_vars,
                   crawler_vars, route_vars>>

\* After the lifespan nothing refers to the server object any more and it is
\* collected.
server_object_collected ==
    /\ lifespan = "exited"
    /\ \A c \in Conns : pc[c] = "idle"
    /\ ~server_collected
    /\ server_collected' = TRUE
    /\ UNCHANGED <<closing, on_app_close_called>>
    /\ UNCHANGED <<server_vars, clock_vars, gate_vars, map_vars, sess_vars,
                   conn_vars, hist_vars, upload_vars, asset_vars,
                   crawler_vars, route_vars>>

\* -------------------------------------------------- _serve_index, crawlers
\* A JSON text is a sequence of tokens: brackets, commas and messages.
Punct(k) == [kind |-> k, value |-> 0]
MsgToken(m) == [kind |-> "msg", value |-> m]
RECURSIVE JsonItems(_)
JsonItems(msgs) ==
    IF msgs = <<>> THEN <<>>
    ELSE IF Len(msgs) = 1 THEN <<MsgToken(msgs[1])>>
    ELSE <<MsgToken(msgs[1]), Punct(",")>> \o JsonItems(Tail(msgs))
\* json.dumps(initial_messages)
JsonDumps(msgs) == <<Punct("[")>> \o JsonItems(msgs) \o <<Punct("]")>>

\* Mutant: the newest message is put first.
SendMessage_Prepend(msgs, m) == <<m>> \o msgs

\* send_message of the crawler branch: initial_messages.append(msg)
SendMessage(msgs, m) == Append(msgs, m)

\* `if session.active_page_url != requested_url`
IsRedirect(page, url) == page # url

\* fastapi.responses.RedirectResponse(str(session.active_page_url))
RedirectResponse(page) ==
    [kind |-> "redirect", status |-> 307, location |-> page,
     session_token |-> NoToken, initial_messages |-> <<>>]

\* fastapi.responses.HTMLResponse(html_): the template with the session token
\* and the JSON text of initial_messages put in.
HTMLResponse(token, msgs) ==
    [kind |-> "html", status |-> HTTP_200_OK, location |-> NoUrl,
     session_token |-> token, initial_messages |-> JsonDumps(msgs)]

\* _serve_index for a detected crawler, up to `await self.create_session`:
\* the session is constructed with a send_message that appends to
\* initial_messages.
serve_index_crawler(url) ==
    /\ lifespan = "serving"
    /\ crawler_pc = "idle"
    /\ crawler_pc' = "creating"
    /\ requested_url' = url
    /\ initial_messages' = <<>>
    /\ sent' = <<>>
    /\ UNCHANGED <<active_page_url, crawler_close_called, index_response>>
    /\ UNCHANGED <<server_vars, clock_vars, gate_vars, map_vars, sess_vars,
                   conn_vars, hist_vars, upload_vars, asset_vars,
                   shutdown_vars, route_vars>>

\* The session under construction sends message m.
crawler_send_message(m) ==
    /\ crawler_pc = "creating"
    /\ Len(initial_messages) < MaxMessages
    /\ initial_messages' = SendMessage(initial_messages, m)
    /\ sent' = Append(sent, m)
    /\ UNCHANGED <<crawler_pc, requested_url, active_page_url,
                   crawler_close_called, index_response>>
    /\ UNCHANGED <<server_vars, clock_vars, gate_vars, map_vars, sess_vars,
                   conn_vars, hist_vars, upload_vars, asset_vars,
                   shutdown_vars, route_vars>>

\* create_session raises NavigationFailed: HTTPException(500).
crawler_navigation_failed ==
    /\ crawler_pc = "creating"
    /\ crawler_pc' = "responded"
    /\ index_response' =
           [kind |-> "error", status |-> HTTP_500_INTERNAL_SERVER_ERROR,
            location |-> NoUrl, session_token |-> NoToken,
            initial_messages |-> <<>>]
    /\ UNCHANGED <<requested_url, initial_messages, active_page_url,
                   crawler_close_called, sent>>
    /\ UNCHANGED <<server_vars, clock_vars, gate_vars, map_vars, sess_vars,
                   conn_vars, hist_vars, upload_vars, asset_vars,
                   shutdown_vars, route_vars>>

\* create_session returns a session whose active page is `page`:
\* session.close() is called, then the response is a redirect to that page
\* or the index page with the token "<crawler>" and the captured messages.
crawler_session_created(page) ==
    /\ crawler_pc = "creating"
    /\ crawler_pc' = "responded"
    /\ active_page_url' = page
    /\ crawler_close_called' = TRUE
    /\ index_response' =
           IF IsRedirect(page, requested_url)
           THEN RedirectResponse(page)
           ELSE HTMLResponse(NoToken, initial_messages)
    /\ UNCHANGED <<requested_url, initial_messages, sent>>
    /\ UNCHANGED <<server_vars, clock_vars, gate_vars, map_vars, sess_vars,
                   conn_vars, hist_vars, upload_vars, asset_vars,
                   shutdown_vars, route_vars>>

\* The response has been sent; the next page request of a crawler can come.
crawler_release ==
    /\ crawler_pc = "responded"
    /\ crawler_pc' = "idle"
    /\ requested_url' = NoUrl
    /\ initial_messages' = <<>>
    /\ active_page_url' = NoUrl
    /\ crawler_close_called' = FALSE
    /\ index_response' = NoResponse
    /\ sent' = <<>>
    /\ UNCHANGED <<server_vars, clock_vars, gate_vars, map_vars, sess_vars,
                   conn_vars, hist_vars, upload_vars, asset_vars,
                   shutdown_vars, route_vars>>

\* --------------------------------------------------------- specification
\* The steps of page requests and of the websocket handlers of Cs.
Protocol(Cs) ==
    \/ lifespan_start
    \/ serve_index_browser
    \/ \E c \in Cs, tok \in {NoToken} \cup Tokens : ws_connect(c, tok)
    \/ \E c \in Cs : ws_accept(c)
    \/ \E c \in Cs : ws_lookup(c)
    \/ \E c \in Cs : ws_initial_message(c)
    \/ \E c \in Cs : ws_initial_message_fails(c)
    \/ \E c \in Cs : ws_navigation_failed(c)
    \/ \E c \in Cs : ws_session_created(c)
    \/ \E c \in Cs : serve_receive_message(c)
    \/ \E c \in Cs : serve_message_arrives(c)
    \/ \E c \in Cs, code \in DisconnectCodes : serve_disconnect(c, code)
    \/ \E c \in Cs : serve_cancelled(c)
    \/ \E c \in Cs : serve_raises(c)
    \/ \E c \in Cs : serve_returns(c)
    \/ \E c \in Cs : ws_release(c)
    \/ \E s \in Sessions : session_close_task(s)

\* The server while the clock has not advanced (the clean-up loop is still in
\* its first sleep), with the gate being closed and reopened; sessions are
\* closed by disconnects and by the application.
Next ==
    \/ Protocol(Conns)
    \/ disable_new_session_creation_enter
    \/ disable_new_session_creation_exit
    \/ \E s \in Sessions : session_close(s)

Spec == Init /\ [][Next]_vars

\* The server over time with its clean-up loop, the gate staying open and
\* one connection at a time.
NextReaper ==
    \/ Protocol({1})
    \/ \E d \in TickSteps : tick(d)
    \/ clean_up_expired_sessions

SpecReaper == InitAnyMode /\ [][NextReaper]_vars

\* The steps of file choosers and of the upload requests of Rs.
Uploads(Rs) ==
    \/ lifespan_start
    \/ file_chooser
    \/ \E u \in UploadTokens : file_chooser_awaits(u)
    \/ \E u \in UploadTokens : file_chooser_cancelled(u)
    \/ \E u \in UploadTokens : file_chooser_resumes(u)
    \/ \E r \in Rs, tok \in {NoUpload} \cup UploadTokens,
          n_names \in 0 .. MaxFiles, n_types \in 0 .. MaxFiles,
          file_sizes \in SizeLists, n_streams \in 0 .. MaxFiles :
            serve_file_upload(r, tok, n_names, n_types, file_sizes, n_streams)
    \/ \E r \in Rs : upload_read(r)
    \/ \E r \in Rs : upload_read_fails(r)
    \/ \E r \in Rs : upload_release(r)

\* The pending file uploads of a running server while no entry expires:
\* file choosers and concurrent upload requests.
NextUpload == Uploads(Requests)

SpecUpload == Init /\ [][NextUpload]_vars

\* The pending file uploads over time, one upload request at a time.
NextUploadExpiry ==
    \/ Uploads({1})
    \/ \E d \in UploadTickSteps : tick(d)

SpecUploadExpiry == Init /\ [][NextUploadExpiry]_vars

\* The weakly hosted assets of a running server: the application constructs,
\* hosts and releases assets while clients request them.
NextAssets ==
    \/ lifespan_start
    \/ \E a \in AssetObjs, i \in AssetIds : asset_constructed(a, i)
    \/ \E a \in AssetObjs : weakly_host_asset(a)
    \/ \E a \in AssetObjs : asset_released(a)
    \/ \E i \in AssetIds : serve_temp_asset(i)
    \/ \E path \in RequestPaths : http_get(path)
    \/ http_release

SpecAssets == Init /\ [][NextAssets]_vars

\* The server from its start to the end of its lifespan, with its clean-up
\* loop and one connection at a time.
NextShutdown ==
    \/ Protocol({1})
    \/ \E d \in ShutdownTickSteps : tick(d)
    \/ clean_up_expired_sessions
    \/ reaper_returns
    \/ lifespan_exit
    \/ \E s \in Sessions : shutdown_close_completes(s)
    \/ \E s \in Sessions : shutdown_close_fails(s)
    \/ lifespan_exit_completes
    \/ server_object_collected

SpecShutdown == InitAnyMode /\ [][NextShutdown]_vars

\* Page requests of browsers and of crawlers, with one websocket connection
\* at a time.
NextCrawler ==
    \/ Protocol({1})
    \/ \E url \in Urls : serve_index_crawler(url)
    \/ \E m \in Messages : crawler_send_message(m)
    \/ crawler_navigation_failed
    \/ \E page \in Urls : crawler_session_created(page)
    \/ crawler_release

SpecCrawler == Init /\ [][NextCrawler]_vars

\* Everything that happens around a token waiting in the latent map: page
\* requests and one connection at a time, the gate, the clock and the
\* clean-up loop, and the shutdown.
NextLatent ==
    \/ Protocol({1})
    \/ disable_new_session_creation_enter
    \/ disable_new_session_creation_exit
    \/ \E d \in ShutdownTickSteps : tick(d)
    \/ clean_up_expired_sessions
    \/ lifespan_exit
    \/ \E s \in Sessions : shutdown_close_completes(s)
    \/ lifespan_exit_completes

SpecLatent == Init /\ [][NextLatent]_vars

\* The gate with blocks entered inside or across one another, and one
\* connection at a time.
NextGate ==
    \/ Protocol({1})
    \/ disable_new_session_creation_enter
    \/ disable_new_session_creation_enter_nested
    \/ disable_new_session_creation_exit

SpecGate == Init /\ [][NextGate]_vars

\* The pending file uploads with one upload request at a time, the event
\* loop running every coroutine that can go on: a file_chooser whose await
\* has ended, a request handler whose read has ended.
NextUploadLive == Uploads({1})

SpecUploadLive ==
    /\ Init
    /\ [][NextUploadLive]_vars
    /\ \A u \in UploadTokens :
        /\ WF_vars(file_chooser_awaits(u))
        /\ WF_vars(file_chooser_resumes(u))
    /\ WF_vars(upload_read(1) \/ upload_read_fails(1))
    /\ WF_vars(upload_release(1))

\* ----------------------------------------------------------------- claims
\* Tokens _serve_index has handed out to browsers.
Issued == 1 .. (next_token - 1)
\* Session objects that exist.
Existing == 1 .. num_sessions
\* A session has been constructed for token t (and stored in the active map).
Promoted(t) == \E s \in Existing : sess_token[s] = t
\* Connection c is inside sess.serve() of session s.
Serves(c, s) == pc[c] \in ServingPcs /\ conn_sess[c] = s
\* Connection c runs its token lookup in this step.
LooksUp(c) == pc[c] = "accepted" /\ pc'[c] # "accepted"

\* C1: in every reachable state no session token is a key of both the latent
\* map and the active map.
C1_TokenInAtMostOneMap ==
    \A t \in Tokens : ~(InLatent(t) /\ InActive(t))

\* A state in which both maps hold a token: one promoted, another latent.
C1_Witness ==
    \E t, u \in Tokens : InActive(t) /\ Promoted(t) /\ InLatent(u)

\* C2 as stated: an issued token that has not been promoted is in exactly one
\* of the two maps (latent tokens never expire).
C2_ExactlyOneMapUntilPromoted ==
    \A t \in Issued :
        ~Promoted(t) => (InLatent(t) /\ ~InActive(t)) \/ (~InLatent(t) /\ InActive(t))

\* C2 amended: an issued token is in the latent map and not in the active map
\* until a handler has looked it up; a token whose handshake is under way
\* (initial message awaited, session being constructed) or has failed is in
\* neither map; a token that has not been promoted is never in the active map.
C2_LatentUntilLookedUp ==
    /\ \A t \in Issued :
        /\ t \notin looked_up => InLatent(t) /\ ~InActive(t)
        /\ ~Promoted(t) => ~InActive(t)
    /\ \A c \in Conns :
        pc[c] \in {"await_initial", "creating", "failed"} =>
            ~InLatent(conn_token[c]) /\ ~InActive(conn_token[c])

\* A handshake is under way for a token while another token, issued and not
\* yet looked up, waits in the latent map.
C2_Witness ==
    \E c \in Conns, u \in Issued :
        /\ pc[c] = "creating"
        /\ conn_token[c] \in Issued
        /\ u \notin looked_up
        /\ InLatent(u)

\* C3: a lookup of a token that is in neither map closes the socket with
\* code 3000, constructs no session and changes neither map; a handler that
\* closed with 3000 does nothing more (it never serves).
C3_UnknownTokenRejected ==
    [][\A c \in Conns :
        /\ (LooksUp(c) /\ ~InLatent(conn_token[c]) /\ ~InActive(conn_token[c])) =>
               /\ pc'[c] = "closed_invalid"
               /\ close_code'[c] = INVALID_TOKEN_CODE
               /\ conn_sess'[c] = NoSession
               /\ num_sessions' = num_sessions
               /\ latent_session_tokens' = latent_session_tokens
               /\ active_session_tokens' = active_session_tokens
        /\ pc[c] = "closed_invalid" => pc'[c] \in {"closed_invalid", "idle"}
      ]_vars

\* A connection that presented an issued token, popped earlier by another
\* connection, was closed with 3000.
C3_Witness ==
    \E c \in Conns :
        /\ pc[c] = "closed_invalid"
        /\ close_code[c] = INVALID_TOKEN_CODE
        /\ conn_token[c] \in Issued

\* C4: a lookup of a token whose session is retained in the active map
\* without a socket serves that session: the active map does not change, no
\* session is constructed, no initial message is awaited, and the session's
\* _send_all_components_on_reconnect is launched.
C4_ReconnectResumesSession ==
    [][\A c \in Conns :
        (/\ LooksUp(c)
         /\ ~InLatent(conn_token[c])
         /\ InActive(conn_token[c])
         /\ websocket[active_session_tokens[conn_token[c]]] = NoConn
         /\ ~is_active_event[active_session_tokens[conn_token[c]]]) =>
            /\ pc'[c] = "serving"
            /\ conn_sess'[c] = active_session_tokens[conn_token[c]]
            /\ active_session_tokens' = active_session_tokens
            /\ num_sessions' = num_sessions
            /\ init_coro'[c] = "send_all_components_on_reconnect"
            /\ is_active_event'[conn_sess'[c]]
      ]_vars

\* A connection serves, after a reconnect, a session whose socket an ended
\* handler had cleared.
C4_Witness ==
    \E c \in Conns :
        /\ pc[c] \in ServingPcs
        /\ init_coro[c] = "send_all_components_on_reconnect"
        /\ websocket[conn_sess[c]] = NoConn
        /\ is_active_event[conn_sess[c]]
        /\ \A d \in Conns \ {c} : pc[d] = "idle"

\* C5: no two connection handlers serve the same session at the same time.
C5_OneHandlerPerSession ==
    \A c, d \in Conns :
        (c # d /\ pc[c] \in ServingPcs /\ pc[d] \in ServingPcs) =>
            conn_sess[c] # conn_sess[d]

\* What a token lookup leads to in the current state of the maps.
LookupOutcome(tok) ==
    IF InLatent(tok) THEN "await_initial"
    ELSE IF InActive(tok) THEN "serving"
    ELSE "closed_invalid"

\* C6: an upgrade that arrives while the gate is closed waits, unaccepted and
\* without a lookup; it leaves the wait only in the step that sets the event,
\* and then goes on; its lookup has the outcome the maps give any lookup.
C6_GateBlocksThenResumes ==
    [][\A c \in Conns :
        /\ (pc[c] = "idle" /\ pc'[c] # "idle" /\ ~can_create_new_sessions) =>
               pc'[c] = "gate_wait" /\ waited_at_gate'[c]
        /\ (pc[c] = "gate_wait" /\ pc'[c] # "gate_wait") =>
               /\ ~can_create_new_sessions
               /\ can_create_new_sessions'
               /\ pc'[c] = "gate_passed"
        /\ (pc[c] = "gate_wait" /\ can_create_new_sessions') =>
               pc'[c] = "gate_passed"
        /\ (LooksUp(c) /\ waited_at_gate[c]) =>
               pc'[c] = LookupOutcome(conn_token[c])
      ]_vars

\* A connection that waited at the gate has been promoted and is served.
C6_Witness ==
    \E c \in Conns :
        /\ waited_at_gate[c]
        /\ pc[c] \in ServingPcs
        /\ init_coro[c] = "refresh"

\* C7 as stated: a connection that arrived while the gate was closed never
\* gets as far as the outcome of a token lookup (rejection with 3000, wait
\* for the initial message) or the serving step.
C7_GateClosedTerminates ==
    \A c \in Conns :
        waited_at_gate[c] =>
            pc[c] \notin {"await_initial", "creating", "serving", "receiving",
                          "closed_invalid"}

\* C7 amended: while a connection waits at the gate, the gate is closed, the
\* socket is neither accepted nor closed and no session is bound to it; the
\* only close code the handler ever sends is 3000, after a failed lookup.
C7_GateClosedWaits ==
    \A c \in Conns :
        /\ pc[c] = "gate_wait" =>
               /\ ~can_create_new_sessions
               /\ waited_at_gate[c]
               /\ close_code[c] = 0
               /\ conn_sess[c] = NoSession
        /\ close_code[c] # 0 =>
               close_code[c] = INVALID_TOKEN_CODE /\ pc[c] = "closed_invalid"

\* A connection presenting a latent token waits at the closed gate.
C7_Witness ==
    \E c \in Conns :
        /\ pc[c] = "gate_wait"
        /\ InLatent(conn_token[c])
        /\ blocks > 0

\* C8: from a state in which the gate is closed, no step constructs a
\* session and no step lets a handler enter the serving step.
C8_NoSessionWhileGateClosed ==
    [][~can_create_new_sessions =>
        /\ num_sessions' = num_sessions
        /\ \A c \in Conns : pc'[c] \in ServingPcs => pc[c] \in ServingPcs
      ]_vars

\* The clean-up loop makes a pass in this step.
ReaperPasses == lifespan = "serving" /\ reaper_wake' # reaper_wake
\* How long ago session s was last interacted with, by its timestamp.
Age(s) == now - last_interaction_timestamp[s]

\* C9: passes are made in server mode only; a pass calls close() on every
\* active session whose timestamp is more than 60 minutes old, connected or
\* not, and on no session whose timestamp is 60 minutes old or newer.
C9_ReaperClosesExpired ==
    [][ReaperPasses =>
        /\ ~running_in_window
        /\ \A s \in Sessions :
            /\ (s \in ActiveSessions /\ Age(s) > SESSION_LIFETIME) =>
                   close_called'[s]
            /\ (~close_called[s] /\ Age(s) <= SESSION_LIFETIME) =>
                   ~close_called'[s]
      ]_vars

\* A pass has just closed a session that its first connection still serves
\* and whose timestamp is more than 60 minutes old.
C9_Witness ==
    /\ reaper_wake = now + LOOP_INTERVAL
    /\ \E s \in Existing, c \in Conns :
        /\ Serves(c, s)
        /\ init_coro[c] = "refresh"
        /\ active_session_tokens[sess_token[s]] = s
        /\ Age(s) > SESSION_LIFETIME
        /\ close_called[s]

EndsServing(c) == pc[c] \in ServingPcs \cup {"cancelled"} /\ pc'[c] = "ended"
\* What ended it was a WebSocketDisconnect with code 1001.
EndedByGoingAway(c) ==
    ended_by'[c] = "disconnect" /\ disconnect_code'[c] = GOING_AWAY_CODE
\* Session s has been closed: its close task has run.
IsClosed(s) == s \in Existing /\ closed[s]

C13_FailedHandshakeRegistersNothing ==
    [][/\ \A c \in Conns :
            /\ (pc[c] \in {"await_initial", "creating"} /\ pc'[c] = "failed") =>
                   /\ num_sessions' = num_sessions
                   /\ active_session_tokens' = active_session_tokens
                   /\ conn_sess'[c] = NoSession
            /\ pc[c] = "failed" => pc'[c] \in {"failed", "idle"}
       /\ \A t \in handshake_failed : ~InActive(t) /\ ~Promoted(t)
      ]_vars

\* A handshake for a latent token has failed, and a later connection that
\* presented the same token was closed with 3000.
C13_Witness ==
    \E c, d \in Conns :
        /\ pc[c] = "failed"
        /\ conn_token[c] \in handshake_failed
        /\ pc[d] = "closed_invalid"
        /\ conn_token[d] = conn_token[c]

\* C20: once a session has been closed it is not a value of the active map,
\* no step puts it back, and no handler is or gets inside its serve().
C20_ClosedIsTerminal ==
    [][\A s \in Sessions :
        IsClosed(s) =>
            /\ \A t \in Tokens :
                /\ active_session_tokens[t] # s
                /\ active_session_tokens'[t] # s
            /\ \A c \in Conns :
                ~(pc'[c] \in ServingPcs /\ conn_sess'[c] = s)
      ]_vars

\* A session was closed while a handler served it: the handler has been
\* cancelled, and a later connection with the token was closed with 3000.
C20_Witness ==
    \E s \in Existing, c, d \in Conns :
        /\ closed[s]
        /\ pc[c] \in {"cancelled", "ended"}
        /\ ended_by[c] \in {"none", "cancelled"}
        /\ conn_sess[c] = s
        /\ pc[d] = "closed_invalid"
        /\ conn_token[d] = sess_token[s]

\* Upload tokens file_chooser has made.
MadeUploads == 1 .. num_uploads
\* Upload request r is received in this step; last_upload' holds its
\* parameters.
Received(r) == upload_pc[r] = "idle" /\ upload_pc'[r] # "idle"
\* Request r is answered in this step with this status and does nothing else.
Answered(r, status) ==
    /\ upload_pc'[r] = "responded"
    /\ status_code'[r] = status
    /\ future' = future
    /\ set_results' = set_results

\* C14: a request with a token that is not pending is answered 400 and
\* touches no future; no future is resolved more than once; a token whose
\* future has been resolved is not pending, and a token that has left the
\* pending uploads never comes back, so every further request with it is
\* answered 400.
C14_UploadTokenSingleUse ==
    [][/\ \A r \in Requests :
            (Received(r) /\ ~IsPending(last_upload'.upload_token)) =>
                /\ Answered(r, HTTP_400_BAD_REQUEST)
                /\ pending_file_uploads' = pending_file_uploads
       /\ \A u \in UploadTokens :
            /\ set_results[u] <= 1
            /\ set_results'[u] <= 1
            /\ set_results[u] = 1 => ~IsPending(u)
            /\ (u \in MadeUploads /\ ~IsPending(u)) => ~IsPending(u)'
      ]_vars

\* A request resolved the future of a token and was answered 200; a further
\* request with the same token was answered 400.
C14_Witness ==
    \E q, r \in Requests, u \in MadeUploads :
        /\ q # r
        /\ status_code[q] = HTTP_200_OK
        /\ upload_future[q] = u
        /\ set_results[u] = 1
        /\ upload_pc[r] = "responded"
        /\ status_code[r] = HTTP_400_BAD_REQUEST
        /\ last_upload.upload_token = u

\* The four arrays of a request do not all have the same length.
LengthsDiffer(req) ==
    Cardinality({req.n_names, req.n_types, Len(req.file_sizes),
                 req.n_streams}) > 1
\* A string of decimal digits.
IsNonNegativeInteger(str) ==
    str # <<>> /\ \A i \in DOMAIN str : IsDigit(str[i])
\* A request with mismatched or malformed fields.
Malformed(req) ==
    \/ LengthsDiffer(req)
    \/ \E i \in DOMAIN req.file_sizes :
          ~IsNonNegativeInteger(req.file_sizes[i])

\* C15: a request with a pending token takes the token out of the pending
\* uploads whatever its outcome; when its fields are malformed it is
\* answered 422 and resolves nothing; a request with a token that is not
\* pending is answered 400 whether its fields are malformed or not.
C15_UploadTokenRemovedAtLookup ==
    [][\A r \in Requests :
        Received(r) =>
            LET req == last_upload' IN
            /\ IsPending(req.upload_token) =>
                   pending_file_uploads'[req.upload_token] = -1
            /\ (IsPending(req.upload_token) /\ Malformed(req)) =>
                   Answered(r, HTTP_422_UNPROCESSABLE_ENTITY)
            /\ ~IsPending(req.upload_token) =>
                   Answered(r, HTTP_400_BAD_REQUEST)
      ]_vars

\* A request with a pending token was answered 422; a further request with
\* that token, itself malformed, was answered 400, and the future of the
\* token is still pending.
C15_Witness ==
    \E q, r \in Requests, u \in MadeUploads :
        /\ q # r
        /\ status_code[q] = HTTP_422_UNPROCESSABLE_ENTITY
        /\ upload_future[q] = u
        /\ upload_pc[r] = "responded"
        /\ status_code[r] = HTTP_400_BAD_REQUEST
        /\ last_upload.upload_token = u
        /\ Malformed(last_upload)
        /\ future[u] = "pending"

\* C16: an upload whose entry has outlived the 15 minutes without a request
\* for it is no longer pending, and the file_chooser that made it is not
\* left waiting for a future that is still pending.
C16_ExpiredUploadEndsWait ==
    \A u \in MadeUploads :
        (pending_file_uploads[u] >= 0 /\ now >= ExpiresAt(u)) =>
            /\ ~IsPending(u)
            /\ ~(chooser[u] = "await_future" /\ future[u] = "pending")

\* A temp-asset request is answered in this step.
AssetRequested ==
    <<asset_request, asset_response>>' # <<asset_request, asset_response>>
\* The hosted assets with secret id i that their owners still hold.
HeldAssets(i) == {a \in hosted : alive[a] /\ secret_id[a] = i}

\* C17: the server's dictionary never holds an asset its owner has released;
\* a request for an id is answered 404 when no hosted asset with that id is
\* still held by its owner, and with such an asset when there is one.
C17_AssetServedWhileOwned ==
    [][/\ \A i \in AssetIds : assets[i] # NoAsset => alive[assets[i]]
       /\ AssetRequested =>
            IF HeldAssets(asset_request') = {}
            THEN asset_response'.status = HTTP_404_NOT_FOUND
            ELSE /\ asset_response'.status = HTTP_200_OK
                 /\ asset_response'.asset \in HeldAssets(asset_request')
      ]_vars

\* C18: when the shutdown begins a close is started for every session of the
\* active map; a close that fails changes the close of no other session and
\* leaves the shutdown waiting for the others; on_app_close is called only
\* when no close is still running, and every lifespan that ends has called
\* it.
C18_ShutdownClosesAllThenHook ==
    [][/\ (lifespan = "serving" /\ lifespan' = "closing") =>
            \A s \in ActiveSessions : closing'[s] = "running"
       /\ \A s \in Sessions :
            (closing[s] = "running" /\ closing'[s] = "failed") =>
                /\ lifespan' = lifespan
                /\ \A t \in Sessions \ {s} : closing'[t] = closing[t]
       /\ (~on_app_close_called /\ on_app_close_called') =>
            /\ lifespan = "closing"
            /\ \A s \in Sessions : closing[s] # "running"
       /\ lifespan \notin {"startup", "serving", "closing"} =>
            lifespan = "exited" /\ on_app_close_called
      ]_vars

\* A shutdown that found two sessions in the active map has ended: the close
\* of one failed, the close of the other completed, and on_app_close was
\* called.
C18_Witness ==
    /\ lifespan = "exited"
    /\ on_app_close_called
    /\ \E s, t \in Existing : closing[s] = "failed" /\ closing[t] = "done"

\* C19: once the lifespan has exited the clean-up task has stopped, and it
\* makes no pass over the active map.
C19_ReaperStoppedAfterShutdown ==
    [][lifespan = "exited" =>
        /\ ~reaper_task
        /\ reaper_wake' = reaper_wake
      ]_vars

\* The messages of a JSON text, in the order in which they stand in it.
EmbeddedMessages(text) ==
    LET msgs == SelectSeq(text, LAMBDA tk : tk.kind = "msg")
    IN  [i \in 1 .. Len(msgs) |-> msgs[i].value]

\* C21: a step of a crawler's page request leaves both maps and the token
\* counter alone; when the request is answered close() has been called on
\* its session; the response is a redirect exactly when the session's active
\* page is not the requested URL, and then to that page; otherwise it is the
\* page, whose token is in neither map and whose embedded messages are the
\* messages sent during the construction, in send order.
C21_CrawlerGetsClosedSessionPage ==
    [][/\ crawler_vars' # crawler_vars => UNCHANGED map_vars
       /\ (/\ crawler_pc = "creating"
           /\ crawler_pc' = "responded"
           /\ index_response'.kind # "error") =>
            /\ crawler_close_called'
            /\ index_response'.kind \in {"redirect", "html"}
            /\ index_response'.kind = "redirect" <=>
                   active_page_url' # requested_url
            /\ index_response'.kind = "redirect" =>
                   index_response'.location = active_page_url'
            /\ index_response'.kind = "html" =>
                   /\ index_response'.session_token
                          \notin latent_session_tokens'
                   /\ index_response'.session_token \notin
                          {t \in Tokens : active_session_tokens'[t] # NoSession}
                   /\ EmbeddedMessages(index_response'.initial_messages)
                          = sent
      ]_vars

\* A crawler was answered with a page that embeds two different messages
\* while a token of a browser waits in the latent map.
C21_Witness ==
    /\ crawler_pc = "responded"
    /\ index_response.kind = "html"
    /\ crawler_close_called
    /\ Len(sent) = 2
    /\ sent[1] # sent[2]
    /\ EmbeddedMessages(index_response.initial_messages) = sent
    /\ latent_session_tokens # {}

\* C22: a token of the latent map is in the latent map after every step but
\* the lookup of a handler that presents it, and an issued token that no
\* handler has looked up is in the latent map.
C22_UnusedLatentTokenStays ==
    [][\A t \in Tokens :
        /\ (/\ InLatent(t)
            /\ ~\E c \in Conns : LooksUp(c) /\ conn_token[c] = t) =>
               t \in latent_session_tokens'
        /\ (t \in Issued /\ t \notin looked_up) => InLatent(t)
      ]_vars

\* The lifespan has exited after a pass of the clean-up loop, the gate has
\* been closed and reopened for a connection that was then served and whose
\* session the shutdown closed, and a token nobody presented is still in the
\* latent map.
C22_Witness ==
    /\ lifespan = "exited"
    /\ reaper_wake > LOOP_INTERVAL
    /\ can_create_new_sessions
    /\ \E s \in Existing : closing[s] = "done" /\ sess_token[s] \in looked_up
    /\ \E c \in Conns : waited_at_gate[c] /\ conn_sess[c] # NoSession
    /\ \E t \in Issued : t \notin looked_up /\ InLatent(t)

\* Handler c is going through the construction of a session.
Constructing(c) == pc[c] \in {"await_initial", "creating"}
\* The sessions constructed for token t.
SessionsOf(t) == {s \in Existing : sess_token[s] = t}

\* C23: for every token at most one session has been constructed and at most
\* one handler is going through the construction of one, and none once a
\* session exists for it; a lookup of an issued token that is no longer
\* latent is rejected with 3000 or serves the session constructed for that
\* token, and constructs nothing.
C23_OneSessionPerToken ==
    [][\A t \in Tokens :
        /\ Cardinality(SessionsOf(t)) <= 1
        /\ Cardinality({c \in Conns : Constructing(c) /\ conn_token[c] = t})
               <= 1
        /\ Promoted(t) =>
               \A c \in Conns : ~(Constructing(c) /\ conn_token[c] = t)
        /\ \A c \in Conns :
               (LooksUp(c) /\ conn_token[c] = t /\ ~InLatent(t)) =>
                   /\ num_sessions' = num_sessions
                   /\ \/ /\ pc'[c] = "closed_invalid"
                         /\ close_code'[c] = INVALID_TOKEN_CODE
                      \/ /\ pc'[c] = "serving"
                         /\ conn_sess'[c] \in SessionsOf(t)
      ]_vars

\* A connection presented a latent token and waits for its initial message;
\* a second connection that presented the same token meanwhile was closed
\* with 3000.
C23_Witness ==
    \E c, d \in Conns :
        /\ pc[c] = "await_initial"
        /\ conn_token[c] \in Issued
        /\ pc[d] = "closed_invalid"
        /\ close_code[d] = INVALID_TOKEN_CODE
        /\ conn_token[d] = conn_token[c]

\* C24: in every reachable state the is-active signal of a session is set
\* exactly when some handler is inside the serve() of that session (a
\* cancelled handler is until its `finally` has run).
C24_ActiveSignalMeansServed ==
    \A s \in Existing :
        is_active_event[s] <=>
            \E c \in Conns : /\ pc[c] \in ServingPcs \cup {"cancelled"}
                             /\ conn_sess[c] = s

\* C25: the gate is closed in every state in which a
\* temporarily_disable_new_session_creation block has been entered and not
\* left, and open when none is.
C25_GateClosedInsideBlocks ==
    can_create_new_sessions <=> blocks = 0

\* C26: once an upload request that popped the pending token u has been
\* answered with 200 or 422, the file_chooser that made u eventually stops
\* waiting: it goes on after its await (to return the files or to raise) or
\* is cancelled.
C26_AnsweredUploadEndsWait ==
    \A u \in UploadTokens :
        (\E r \in Requests :
            /\ upload_pc[r] = "responded"
            /\ upload_future[r] = u
            /\ status_code[r] \in {HTTP_200_OK, HTTP_422_UNPROCESSABLE_ENTITY})
        ~> chooser[u] \in {"resumed", "cancelled"}

\* C27: a GET request for the URL path weakly_host_asset returned for an
\* asset, made while the owner holds the asset and the dictionary has it
\* under its id, is dispatched to _serve_temp_asset and answered with that
\* asset.
C27_HostedUrlReachesAsset ==
    [][\A a \in hosted :
        (/\ alive[a]
         /\ assets[secret_id[a]] = a
         /\ dispatched = "none"
         /\ dispatched' # "none"
         /\ get_path' = url_of[a]) =>
            /\ dispatched' = "_serve_temp_asset"
            /\ asset_response' = [status |-> HTTP_200_OK, asset |-> a]
      ]_vars

====
